---- MODULE Spec2Model ----
(***************************************************************************)
(* A model of the non-blocking I/O core of futures-rs: the ReadBuf double  *)
(* cursor (futures-io/src/read_buf.rs), the split handles                  *)
(* (futures-util/src/io/split.rs) and the completion-driving combinators   *)
(* CopyInto, ReadExact, Read, Flush, Close and ReadToEnd                   *)
(* (futures-util/src/io/*.rs).                                             *)
(***************************************************************************)
EXTENDS Integers, Sequences, FiniteSets, TLC

VARIABLES
    rb,        \* the ReadBuf: [buf, filled, initialized]
    rbLast,    \* the last ReadBuf call: [op, n, panic, filled0, init0, lo, hi]
    lock,      \* the BiLock cell shared by the two split handles
    hs,        \* per split handle: position inside lock_and_then and last result
    inRes,     \* the handles currently inside a call of the shared resource
    fut,       \* the combinator (CopyInto, ReadExact, Read, Flush, Close, ReadToEnd)
    rd,        \* the reader the combinator owns: [data, at, script]
    wr,        \* the writer the combinator owns: [out, wscript, fscript]
    res,       \* what the last poll of the combinator returned
    log        \* the calls the last poll made on reader and writer, in order

vars == <<rb, rbLast, lock, hs, inRes, fut, rd, wr, res, log>>

rbVars == <<rb, rbLast>>
splitVars == <<lock, hs, inRes>>
ioVars == <<fut, rd, wr, res, log>>

Min(a, b) == IF a <= b THEN a ELSE b
Max(a, b) == IF a >= b THEN a ELSE b

(***************************************************************************)
(* ReadBuf (futures-io/src/read_buf.rs)                                    *)
(***************************************************************************)

\* Largest buffer length of a ReadBuf in the model.
MaxCap == 3

\* Width of usize in the model: sizes are far below 2^UsizeBits, so the only
\* sum that leaves the range is one with an argument near UsizeMax.
UsizeBits == 4
UsizeMax == 2^UsizeBits - 1

\* A MaybeUninit<u8> that was never written.
Uninit == -1

\* Byte values (0 is what a zero-fill writes).
Bytes == {0, 1}

\* Sequences over S of length at most n.
SeqUpTo(S, n) == UNION {[1..k -> S] : k \in 0..n}

\* ReadBuf::new: a fully initialized buffer.
ReadBuf_new(buf) == [buf |-> buf, filled |-> 0, initialized |-> Len(buf)]

\* ReadBuf::uninit: a fully uninitialized buffer.
ReadBuf_uninit(buf) == [buf |-> buf, filled |-> 0, initialized |-> 0]

\* A region of n bytes that were never written.
Fresh(n) == [i \in 1..n |-> Uninit]

\* ReadBuf::len
len(b) == Len(b.buf)

\* The builds of the crate: with overflow checks (a debug build) and without
\* (a release build).
OverflowChecks == BOOLEAN

\* ReadBuf::remaining: self.len() - self.filled, a usize subtraction. With
\* filled > len it panics in a build with overflow checks and wraps modulo
\* 2^UsizeBits in a build without.
remaining(b, checks) ==
    IF b.filled <= len(b)
    THEN [panic |-> FALSE, n |-> len(b) - b.filled]
    ELSE IF checks
    THEN [panic |-> TRUE, n |-> 0]
    ELSE [panic |-> FALSE, n |-> (len(b) - b.filled) % (UsizeMax + 1)]

\* The outcome of a ReadBuf call: the cursor afterwards, whether it
\* panicked, and the range [lo, hi) of the slice it returned (0-based).
RbOut(b, panic, lo, hi) == [b |-> b, panic |-> panic, lo |-> lo, hi |-> hi]

initialize_unfilled_to_clamped(b, n) ==
    IF b.initialized > n
    THEN RbOut(b, TRUE, 0, 0)
    ELSE RbOut([b EXCEPT !.buf = [i \in 1..len(b) |->
                    IF i > b.initialized /\ i <= n THEN 0 ELSE b.buf[i]]],
               FALSE, b.initialized, Min(n, len(b)))

initialize_unfilled_to_no_zero(b, n) ==
    IF b.initialized > n \/ n > len(b)
    THEN RbOut(b, TRUE, 0, 0)
    ELSE RbOut(b, FALSE, b.initialized, n)

\* ReadBuf::filled_mut: &mut self.buf[0..self.filled], which panics when
\* filled > len.
filled_mut(b) ==
    IF b.filled > len(b) THEN RbOut(b, TRUE, 0, 0) ELSE RbOut(b, FALSE, 0, b.filled)

\* ReadBuf::initialized_mut: &mut self.buf[0..self.initialized].
initialized_mut(b) ==
    IF b.initialized > len(b)
    THEN RbOut(b, TRUE, 0, 0) ELSE RbOut(b, FALSE, 0, b.initialized)

\* ReadBuf::unfilled_mut (unsafe): &mut self.buf[self.filled..].
unfilled_mut(b) ==
    IF b.filled > len(b) THEN RbOut(b, TRUE, 0, 0) ELSE RbOut(b, FALSE, b.filled, len(b))

\* ReadBuf::initialize_unfilled_to: &mut self.buf[self.initialized..n] panics
\* when initialized > n or n > len; then zeroes that range and returns it.
initialize_unfilled_to(b, n) ==
    IF b.initialized > n \/ n > len(b)
    THEN RbOut(b, TRUE, 0, 0)
    ELSE RbOut([b EXCEPT !.buf = [i \in 1..len(b) |->
                    IF i > b.initialized /\ i <= n THEN 0 ELSE b.buf[i]]],
               FALSE, b.initialized, n)

\* ReadBuf::initialize_unfilled
initialize_unfilled(b) == initialize_unfilled_to(b, len(b))

clear_all(b) == RbOut([b EXCEPT !.filled = 0, !.initialized = 0], FALSE, 0, 0)

\* ReadBuf::clear
clear(b) == RbOut([b EXCEPT !.filled = 0], FALSE, 0, 0)

add_filled_unchecked(b, n) == RbOut([b EXCEPT !.filled = b.filled + n], FALSE, 0, 0)

add_filled_wrapping(b, n) ==
    IF (b.filled + n) % (UsizeMax + 1) <= b.initialized
    THEN RbOut([b EXCEPT !.filled = (b.filled + n) % (UsizeMax + 1)], FALSE, 0, 0)
    ELSE RbOut(b, TRUE, 0, 0)

\* ReadBuf::add_filled: checked_add(n).unwrap() panics when the sum leaves
\* usize, the assert when it exceeds initialized.
add_filled(b, n) ==
    IF b.filled + n <= UsizeMax /\ b.filled + n <= b.initialized
    THEN RbOut([b EXCEPT !.filled = b.filled + n], FALSE, 0, 0)
    ELSE RbOut(b, TRUE, 0, 0)

set_filled_grow_only(b, n) ==
    IF n <= b.initialized
    THEN RbOut([b EXCEPT !.filled = Max(b.filled, n)], FALSE, 0, 0)
    ELSE RbOut(b, TRUE, 0, 0)

\* ReadBuf::set_filled
set_filled(b, n) ==
    IF n <= b.initialized
    THEN RbOut([b EXCEPT !.filled = n], FALSE, 0, 0)
    ELSE RbOut(b, TRUE, 0, 0)

assume_init_zeroing(b, n) ==
    RbOut([b EXCEPT !.initialized = Max(b.initialized, n),
                    !.buf = [i \in 1..len(b) |->
                        IF i > b.initialized /\ i <= n THEN 0 ELSE b.buf[i]]],
          FALSE, 0, 0)

assume_init_overwrite(b, n) == RbOut([b EXCEPT !.initialized = n], FALSE, 0, 0)

\* ReadBuf::assume_init
assume_init(b, n) ==
    RbOut([b EXCEPT !.initialized = Max(b.initialized, n)], FALSE, 0, 0)

\* ReadBuf::append: asserts remaining() >= buf.len(), then copies the bytes
\* into buf[filled .. filled + len]; with filled beyond the buffer the
\* subtraction panics or, where it wraps, the slice index does.
append(b, bytes, checks) ==
    IF \/ remaining(b, checks).panic
       \/ remaining(b, checks).n < Len(bytes)
       \/ b.filled + Len(bytes) > len(b)
    THEN RbOut(b, TRUE, 0, 0)
    ELSE RbOut([b EXCEPT !.buf = [i \in 1..len(b) |->
                    IF i > b.filled /\ i <= b.filled + Len(bytes)
                    THEN bytes[i - b.filled] ELSE b.buf[i]]],
               FALSE, 0, 0)

\* The record of a call kept in rbLast.
RbCall(op, n, b, out) ==
    [op |-> op, n |-> n, panic |-> out.panic,
     filled0 |-> b.filled, init0 |-> b.initialized, lo |-> out.lo, hi |-> out.hi]

RbInitStates ==
    {ReadBuf_new(s) : s \in SeqUpTo(Bytes, MaxCap)}
        \cup {ReadBuf_uninit(Fresh(c)) : c \in 0..MaxCap}

RbApply(op, n, out) ==
    /\ rb' = out.b
    /\ rbLast' = RbCall(op, n, rb, out)
    /\ UNCHANGED <<splitVars, ioVars>>

\* Arguments of the calls: every size up to one past the largest capacity.
RbArgs == 0..(MaxCap + 1)

CallInitializeUnfilled == RbApply("initialize_unfilled", len(rb), initialize_unfilled(rb))
CallInitializeUnfilledTo == \E n \in RbArgs :
    RbApply("initialize_unfilled_to", n, initialize_unfilled_to(rb, n))
CallClear == RbApply("clear", 0, clear(rb))
CallAddFilled == \E n \in RbArgs \cup {UsizeMax} :
    RbApply("add_filled", n, add_filled(rb, n))
CallSetFilled == \E n \in RbArgs : RbApply("set_filled", n, set_filled(rb, n))
CallAssumeInit == \E n \in RbArgs : RbApply("assume_init", n, assume_init(rb, n))
CallAppend == \E bytes \in SeqUpTo(Bytes, 2) : \E checks \in OverflowChecks :
    RbApply("append", Len(bytes), append(rb, bytes, checks))

\* remaining(): rbLast.n keeps the count it returned.
CallRemaining == \E checks \in OverflowChecks :
    RbApply("remaining", remaining(rb, checks).n,
            RbOut(rb, remaining(rb, checks).panic, 0, 0))

CallFilledMut == RbApply("filled_mut", 0, filled_mut(rb))
CallInitializedMut == RbApply("initialized_mut", 0, initialized_mut(rb))
CallUnfilledMut == RbApply("unfilled_mut", 0, unfilled_mut(rb))

\* The caller writes a value of vals through the slice that the last call,
\* one of slice, returned; the write is recorded as written.
WriteThrough(slice, written, vals) ==
    /\ rbLast.op \in slice \cup {written}
    /\ ~rbLast.panic
    /\ \E i \in (rbLast.lo + 1)..rbLast.hi : \E v \in vals :
          rb' = [rb EXCEPT !.buf[i] = v]
    /\ rbLast' = [rbLast EXCEPT !.op = written]
    /\ UNCHANGED <<splitVars, ioVars>>

\* Writes through the &mut [u8] of filled_mut and of initialized_mut, and
\* through the &mut [MaybeUninit<u8>] of unfilled_mut, which also takes
\* MaybeUninit::uninit().
CallWriteFilledMut == WriteThrough({"filled_mut"}, "write_filled_mut", Bytes)
CallWriteInitializedMut ==
    WriteThrough({"initialized_mut"}, "write_initialized_mut", Bytes)
CallWriteUnfilledMut ==
    WriteThrough({"unfilled_mut"}, "write_unfilled_mut", Bytes \cup {Uninit})

\* The caller writes a byte through the slice the last initialize_unfilled /
\* initialize_unfilled_to returned; rbLast keeps the call the slice came from.
CallWriteReturned ==
    WriteThrough({"initialize_unfilled", "initialize_unfilled_to"}, "write_returned",
                 Bytes)

IdleSplit == lock = [held |-> FALSE, waiter |-> "none"] /\ hs = <<>> /\ inRes = {}
IdleIo == fut = <<>> /\ rd = <<>> /\ wr = <<>> /\ res = <<>> /\ log = <<>>

InitReadBuf ==
    /\ rb \in RbInitStates
    /\ rbLast = [op |-> "constructed", n |-> len(rb), panic |-> FALSE,
                 filled0 |-> 0, init0 |-> rb.initialized, lo |-> 0, hi |-> 0]
    /\ IdleSplit
    /\ IdleIo

NextReadBuf ==
    \/ CallInitializeUnfilled
    \/ CallInitializeUnfilledTo
    \/ CallClear
    \/ CallAddFilled
    \/ CallSetFilled
    \/ CallAssumeInit
    \/ CallAppend
    \/ CallRemaining
    \/ CallFilledMut
    \/ CallInitializedMut
    \/ CallUnfilledMut
    \/ CallWriteReturned
    \/ CallWriteFilledMut
    \/ CallWriteInitializedMut
    \/ CallWriteUnfilledMut

SpecReadBuf == InitReadBuf /\ [][NextReadBuf]_vars

\* The safe operations only: every call but the unsafe assume_init and
\* unfilled_mut.
NextReadBufSafe ==
    \/ CallInitializeUnfilled
    \/ CallInitializeUnfilledTo
    \/ CallClear
    \/ CallAddFilled
    \/ CallSetFilled
    \/ CallAppend
    \/ CallRemaining
    \/ CallFilledMut
    \/ CallInitializedMut
    \/ CallWriteReturned
    \/ CallWriteFilledMut
    \/ CallWriteInitializedMut

SpecReadBufSafe == InitReadBuf /\ [][NextReadBufSafe]_vars

(***************************************************************************)
(* split (futures-util/src/io/split.rs)                                    *)
(***************************************************************************)

Handles == {"read", "write"}

\* The operations each half forwards to the shared resource.
HandleOps(h) ==
    IF h = "read" THEN {"poll_read", "poll_vectored_read"}
    ELSE {"poll_write", "poll_vectored_write", "poll_flush", "poll_close"}

\* What a call of the shared resource can return.
Outcomes == {"Ready", "Pending", "Err"}

poll_lock_no_park(l, h) ==
    IF l.held
    THEN [lock |-> l, t |-> "Pending"]
    ELSE [lock |-> [l EXCEPT !.held = TRUE], t |-> "Ready"]

\* BiLock::poll_lock for handle h: the lock is taken when it is free;
\* otherwise the caller's task is parked on the lock and gets Pending.
poll_lock(l, h) ==
    IF l.held
    THEN [lock |-> [l EXCEPT !.waiter = h], t |-> "Pending"]
    ELSE [lock |-> [l EXCEPT !.held = TRUE], t |-> "Ready"]

\* Dropping the BiLockGuard: the lock is released and the parked task, if
\* any, is woken.
unlock(l) == [lock |-> [held |-> FALSE, waiter |-> "none"], woken |-> l.waiter]

lock_and_then_swapped(t) == IF t = "Pending" THEN "call_f" ELSE "return_pending"

lock_and_then_unguarded(t) == "call_f"

\* lock_and_then: f runs on the locked resource only when poll_lock returned
\* Ready; on Pending the handle returns Ok(Pending) at once.
lock_and_then(t) == IF t = "Ready" THEN "call_f" ELSE "return_pending"

\* Arguments of a forwarded call (which buffer the caller hands over).
SplitArgs == {0, 1}

\* poll_flush and poll_close take no buffer.
OpArgs(op) == IF op \in {"poll_flush", "poll_close"} THEN {0} ELSE SplitArgs

Forward_plain(op, arg) ==
    [op |-> IF op = "poll_vectored_read" THEN "poll_read"
            ELSE IF op = "poll_vectored_write" THEN "poll_write" ELSE op,
     arg |-> arg]

\* The closure each method hands to lock_and_then: |l, cx| l.op(cx, arg).
Forward(op, arg) == [op |-> op, arg |-> arg]

\* A handle outside any call.  op, arg: the call made on the handle;
\* called, farg, fret, calls: the call f made on the resource, its result
\* and the number of such calls; retried: the call follows a wake-up.
IdleHandle == [pc |-> "idle", op |-> "none", arg |-> 0, ret |-> "none",
               guard |-> FALSE, woken |-> FALSE, reached |-> FALSE,
               retried |-> FALSE, called |-> "none", farg |-> 0,
               fret |-> "none", calls |-> 0]

\* A task calls an operation of its half: lock_and_then polls the lock.
HandleCall(h) ==
    /\ hs[h].pc = "idle"
    /\ \E op \in HandleOps(h) : \E arg \in OpArgs(op) :
         LET r == poll_lock(lock, h)
             c == [IdleHandle EXCEPT !.op = op, !.arg = arg,
                                     !.retried = hs[h].woken]
         IN
         /\ lock' = r.lock
         /\ hs' = [hs EXCEPT ![h] =
                IF lock_and_then(r.t) = "call_f"
                THEN [c EXCEPT !.pc = "locked", !.guard = (r.t = "Ready")]
                ELSE [c EXCEPT !.ret = "Pending"]]
    /\ UNCHANGED <<inRes, rbVars, ioVars>>

\* f starts: the call of the same-named operation enters the resource.
ResourceEnter(h) ==
    /\ hs[h].pc = "locked"
    /\ inRes' = inRes \cup {h}
    /\ LET f == Forward(hs[h].op, hs[h].arg)
       IN hs' = [hs EXCEPT ![h].pc = "in_f", ![h].reached = TRUE,
                           ![h].called = f.op, ![h].farg = f.arg,
                           ![h].calls = @ + 1]
    /\ UNCHANGED <<lock, rbVars, ioVars>>

\* The call on the resource returns.
ResourceLeave(h) ==
    /\ hs[h].pc = "in_f"
    /\ \E o \in Outcomes : hs' = [hs EXCEPT ![h].pc = "f_done", ![h].fret = o]
    /\ inRes' = inRes \ {h}
    /\ UNCHANGED <<lock, rbVars, ioVars>>

HandleReturn_keep_on_pending(h) ==
    /\ hs[h].pc = "f_done"
    /\ LET u == unlock(lock) IN
       IF hs[h].guard /\ hs[h].fret # "Pending"
       THEN /\ lock' = u.lock
            /\ hs' = [g \in Handles |->
                  IF g = h THEN [hs[g] EXCEPT !.pc = "idle", !.guard = FALSE,
                                              !.ret = hs[g].fret]
                  ELSE IF g = u.woken THEN [hs[g] EXCEPT !.woken = TRUE]
                  ELSE hs[g]]
       ELSE /\ lock' = lock
            /\ hs' = [hs EXCEPT ![h].pc = "idle", ![h].ret = hs[h].fret]
    /\ UNCHANGED <<inRes, rbVars, ioVars>>

\* lock_and_then returns f's result; the guard is dropped on the way out.
HandleReturn(h) ==
    /\ hs[h].pc = "f_done"
    /\ LET u == unlock(lock) IN
       IF hs[h].guard
       THEN /\ lock' = u.lock
            /\ hs' = [g \in Handles |->
                  IF g = h THEN [hs[g] EXCEPT !.pc = "idle", !.guard = FALSE,
                                              !.ret = hs[g].fret]
                  ELSE IF g = u.woken THEN [hs[g] EXCEPT !.woken = TRUE]
                  ELSE hs[g]]
       ELSE /\ lock' = lock
            /\ hs' = [hs EXCEPT ![h].pc = "idle", ![h].ret = hs[h].fret]
    /\ UNCHANGED <<inRes, rbVars, ioVars>>

IdleReadBuf == rb = ReadBuf_uninit(Fresh(0)) /\ rbLast = <<>>

\* split(t): BiLock::new(t) and the two halves, neither inside a call.
InitSplit ==
    /\ lock = [held |-> FALSE, waiter |-> "none"]
    /\ hs = [h \in Handles |-> IdleHandle]
    /\ inRes = {}
    /\ IdleReadBuf
    /\ IdleIo

NextSplit ==
    \E h \in Handles :
        \/ HandleCall(h)
        \/ ResourceEnter(h)
        \/ ResourceLeave(h)
        \/ HandleReturn(h)

SpecSplit == InitSplit /\ [][NextSplit]_vars

\* The task of a handle that was woken polls the handle again.
Repoll(h) == hs[h].woken /\ HandleCall(h)

\* Scheduling: a call that holds the lock runs to its return, and a woken
\* task is polled again.  Nothing makes a task call when it was not woken.
FairSplit ==
    \A h \in Handles :
        /\ WF_vars(ResourceEnter(h))
        /\ WF_vars(ResourceLeave(h))
        /\ WF_vars(HandleReturn(h))
        /\ WF_vars(Repoll(h))

SpecSplitFair == InitSplit /\ [][NextSplit]_vars /\ FairSplit

(***************************************************************************)
(* Readers and writers (the contract of futures-io/src/lib.rs)             *)
(***************************************************************************)

\* Longest stream a reader yields before end-of-stream.
MaxStream == 4

\* Largest copy / destination buffer handed to a combinator.
MaxBuf == 3

\* Total number of scripted responses (Pending, error, short count) the
\* reader and the writer give before they become always ready.
MaxScript == 3

\* The stream of length l: its bytes are 1, 2, ..., l.
Stream(l) == [i \in 1..l |-> i]

\* The error values of the underlying resource (R::Error, W::Error).
ErrCodes == {1, 2}

\* Scripted responses of a reader: not ready, an I/O error (n is its
\* value), or a read that delivers at most n bytes.
ReadEntries ==
    {[t |-> "Pending", n |-> 0]} \cup {[t |-> "Err", n |-> c] : c \in ErrCodes}
        \cup {[t |-> "Ready", n |-> k] : k \in 1..2}

\* Scripted responses of a writer to poll_write: not ready, an I/O error,
\* or a write that accepts at most n bytes (n = 0: a zero-byte write).
WriteEntries ==
    {[t |-> "Pending", n |-> 0]} \cup {[t |-> "Err", n |-> c] : c \in ErrCodes}
        \cup {[t |-> "Ready", n |-> k] : k \in 0..2}

\* Scripted responses to poll_flush / poll_close.
FlushEntries ==
    {[t |-> "Pending", n |-> 0]} \cup {[t |-> "Err", n |-> c] : c \in ErrCodes}

NoBytes == <<>>

\* CoreAsyncRead::poll_read_core on a destination of buflen bytes: the next
\* scripted response, or, with the script used up, as many bytes as fit.
\* Ready(0) is returned only at end-of-stream or for an empty destination.
poll_read_core(r, buflen) ==
    LET e == IF r.script = <<>> THEN [t |-> "Ready", n |-> buflen] ELSE Head(r.script)
        rest == IF r.script = <<>> THEN <<>> ELSE Tail(r.script)
        k == Min(Min(e.n, buflen), Len(r.data) - r.at)
    IN IF e.t = "Ready"
       THEN [rd |-> [r EXCEPT !.at = @ + k, !.script = rest],
             t |-> "Ready", n |-> k, bytes |-> SubSeq(r.data, r.at + 1, r.at + k)]
       ELSE [rd |-> [r EXCEPT !.script = rest], t |-> e.t, n |-> e.n, bytes |-> NoBytes]

\* CoreAsyncWrite::poll_write_core of the slice bytes.
poll_write_core(w, bytes) ==
    LET e == IF w.wscript = <<>> THEN [t |-> "Ready", n |-> Len(bytes)]
             ELSE Head(w.wscript)
        rest == IF w.wscript = <<>> THEN <<>> ELSE Tail(w.wscript)
        k == Min(e.n, Len(bytes))
    IN IF e.t = "Ready"
       THEN [wr |-> [w EXCEPT !.out = @ \o SubSeq(bytes, 1, k), !.wscript = rest],
             t |-> "Ready", n |-> k]
       ELSE [wr |-> [w EXCEPT !.wscript = rest], t |-> e.t, n |-> e.n]

\* CoreAsyncWrite::poll_flush_core / poll_close_core.
poll_flush_core(w) ==
    IF w.fscript = <<>>
    THEN [wr |-> w, t |-> "Ready", n |-> 0]
    ELSE [wr |-> [w EXCEPT !.fscript = Tail(@)],
          t |-> Head(w.fscript).t, n |-> Head(w.fscript).n]

poll_close_core(w) == poll_flush_core(w)

\* buf with bytes copied in at 0-based offset off (copy_from_slice).
WriteAt(buf, off, bytes) ==
    [i \in 1..Len(buf) |->
        IF i > off /\ i <= off + Len(bytes) THEN bytes[i - off] ELSE buf[i]]

(***************************************************************************)
(* Poll results and the call log                                           *)
(***************************************************************************)

\* Poll<Item, Error> as returned by Future::poll, or a panic.
Result(t, n, err, buf) == [t |-> t, n |-> n, err |-> err, buf |-> buf, code |-> 0]
ReadyRes(n, buf) == Result("Ready", n, "", buf)
PendingRes == Result("Pending", 0, "", NoBytes)
ErrRes(e) == Result("Err", 0, e, NoBytes)
\* The error value c of the underlying resource, passed on.
IoErr(c) == [ErrRes("io") EXCEPT !.code = c]
PanicRes == Result("Panic", 0, "", NoBytes)

\* One call on the reader or writer: its operation, the 0-based offset and
\* the length of the slice handed over, and what it returned.
Call(op, off, length, t, n) ==
    [op |-> op, off |-> off, len |-> length, t |-> t,
     n |-> IF t = "Err" THEN 0 ELSE n, err |-> IF t = "Err" THEN n ELSE 0]

\* The state a poll works on, and what it returns.
Ret(w, r) == [f |-> w.f, rd |-> w.rd, wr |-> w.wr, log |-> w.log, res |-> r]

TryReady_forget(w, t, e) ==
    IF t = "Pending"
    THEN Ret(IF w.f.kind \in {"CopyInto", "ReadExact", "Read"}
             THEN [w EXCEPT !.f.buf = [i \in 1..Len(@) |-> 0]] ELSE w,
             PendingRes)
    ELSE Ret(w, IoErr(e))

TryReady_wrap(w, t, e) ==
    IF t = "Pending" THEN Ret(w, PendingRes) ELSE Ret(w, IoErr(1))

\* try_ready!: Pending and Err return from the poll at once.
TryReady(w, t, e) == IF t = "Pending" THEN Ret(w, PendingRes) ELSE Ret(w, IoErr(e))

(***************************************************************************)
(* CopyInto (futures-util/src/io/copy_into.rs)                             *)
(***************************************************************************)

\* copy_into(reader, writer, buf)
copy_into(buf) ==
    [kind |-> "CopyInto", reader |-> TRUE, writer |-> TRUE, buf_some |-> TRUE,
     read_done |-> FALSE, amt |-> 0, pos |-> 0, cap |-> 0, buf |-> buf]

RECURSIVE CopyLoop(_)
RECURSIVE CopyDrain(_)

CopyAfterRead_short_eof(f, n) ==
    IF n = 0 THEN [f EXCEPT !.read_done = TRUE]
    ELSE IF n < Len(f.buf)
    THEN [f EXCEPT !.read_done = TRUE, !.pos = 0, !.cap = n]
    ELSE [f EXCEPT !.pos = 0, !.cap = n]

\* After poll_read_core returned Ready(n): end-of-stream, or a fresh buffer.
CopyAfterRead(f, n) ==
    IF n = 0 THEN [f EXCEPT !.read_done = TRUE] ELSE [f EXCEPT !.pos = 0, !.cap = n]

CopyAfterWrite_no_amt(f, i) == [f EXCEPT !.pos = @ + i]

CopyAfterWrite_once(f, i) == [f EXCEPT !.pos = @ + i, !.amt = @ + 1]

\* After poll_write_core returned Ready(i) with i > 0.
CopyAfterWrite(f, i) == [f EXCEPT !.pos = @ + i, !.amt = @ + i]

CopyFinish_never(w) == Ret(w, PendingRes)

\* The transfer is over: flush the writer and hand everything back.
CopyFinish(w) ==
    IF ~w.f.writer
    THEN Ret(w, PanicRes)
    ELSE LET r == poll_flush_core(w.wr)
             w1 == [w EXCEPT !.wr = r.wr,
                             !.log = Append(@, Call("flush", 0, 0, r.t, r.n))]
         IN IF r.t # "Ready"
            THEN TryReady(w1, r.t, r.n)
            ELSE Ret([w1 EXCEPT !.f.reader = FALSE, !.f.writer = FALSE,
                                !.f.buf_some = FALSE],
                     ReadyRes(w1.f.amt, w1.f.buf))

CopyOnWriteZero_flush(w) == CopyFinish(w)

\* poll_write_core returned Ready(0) for a non-empty slice.
CopyOnWriteZero(w) == Ret(w, ErrRes("write_zero"))

\* while self.pos < self.cap: write buf[pos..cap]; then the check for the
\* end of the transfer, else round the loop again.
CopyDrain(w) ==
    IF w.f.pos < w.f.cap
    THEN IF ~w.f.writer \/ ~w.f.buf_some
         THEN Ret(w, PanicRes)
         ELSE LET r == poll_write_core(w.wr, SubSeq(w.f.buf, w.f.pos + 1, w.f.cap))
                  w1 == [w EXCEPT !.wr = r.wr,
                                  !.log = Append(@, Call("write", w.f.pos,
                                                 w.f.cap - w.f.pos, r.t, r.n))]
              IN IF r.t # "Ready" THEN TryReady(w1, r.t, r.n)
                 ELSE IF r.n = 0 THEN CopyOnWriteZero(w1)
                 ELSE CopyDrain([w1 EXCEPT !.f = CopyAfterWrite(w.f, r.n)])
    ELSE IF w.f.pos = w.f.cap /\ w.f.read_done
         THEN CopyFinish(w)
         ELSE CopyLoop(w)

CopyLoop_always_read(w) ==
    IF ~w.f.read_done
    THEN IF ~w.f.reader \/ ~w.f.buf_some
         THEN Ret(w, PanicRes)
         ELSE LET r == poll_read_core(w.rd, Len(w.f.buf))
                  w1 == [w EXCEPT !.rd = r.rd,
                                  !.f.buf = WriteAt(@, 0, r.bytes),
                                  !.log = Append(@, Call("read", 0, Len(w.f.buf),
                                                 r.t, r.n))]
              IN IF r.t # "Ready" THEN TryReady(w1, r.t, r.n)
                 ELSE CopyDrain([w1 EXCEPT !.f = CopyAfterRead(w1.f, r.n)])
    ELSE CopyDrain(w)

\* loop: refill the buffer when it is drained and the reader is not done.
CopyLoop(w) ==
    IF w.f.pos = w.f.cap /\ ~w.f.read_done
    THEN IF ~w.f.reader \/ ~w.f.buf_some
         THEN Ret(w, PanicRes)
         ELSE LET r == poll_read_core(w.rd, Len(w.f.buf))
                  w1 == [w EXCEPT !.rd = r.rd,
                                  !.f.buf = WriteAt(@, 0, r.bytes),
                                  !.log = Append(@, Call("read", 0, Len(w.f.buf),
                                                 r.t, r.n))]
              IN IF r.t # "Ready" THEN TryReady(w1, r.t, r.n)
                 ELSE CopyDrain([w1 EXCEPT !.f = CopyAfterRead(w1.f, r.n)])
    ELSE CopyDrain(w)

\* CopyInto::poll
CopyInto_poll(f, r, w) == CopyLoop([f |-> f, rd |-> r, wr |-> w, log |-> <<>>])

(***************************************************************************)
(* ReadExact (futures-util/src/io/read_exact.rs)                           *)
(***************************************************************************)

\* read_exact(a, buf)
read_exact(buf) == [kind |-> "ReadExact", state |-> "Reading", pos |-> 0, buf |-> buf]

RECURSIVE ReadExactLoop(_)

ReadExactOnEof_done(w) == Ret([w EXCEPT !.f.state = "Empty"], ErrRes("unexpected_eof"))

\* poll_read returned Ready(0) before the buffer was full.
ReadExactOnEof(w) == Ret(w, ErrRes("unexpected_eof"))

ReadExactAdvance_one(pos, n) == pos + 1

\* *pos += n
ReadExactAdvance(pos, n) == pos + n

ReadExactFull_short(f) == f.pos + 1 < Len(f.buf)

\* while *pos < buf.len()
ReadExactFull(f) == f.pos < Len(f.buf)

\* The loop of State::Reading, then mem::replace(&mut self.state, State::Empty).
ReadExactLoop(w) ==
    IF ReadExactFull(w.f)
    THEN LET r == poll_read_core(w.rd, Len(w.f.buf) - w.f.pos)
             w1 == [w EXCEPT !.rd = r.rd,
                             !.f.buf = WriteAt(@, w.f.pos, r.bytes),
                             !.log = Append(@, Call("read", w.f.pos,
                                            Len(w.f.buf) - w.f.pos, r.t, r.n))]
         IN IF r.t # "Ready" THEN TryReady(w1, r.t, r.n)
            ELSE LET w2 == [w1 EXCEPT !.f.pos = ReadExactAdvance(@, r.n)]
                 IN IF r.n = 0 THEN ReadExactOnEof(w2) ELSE ReadExactLoop(w2)
    ELSE Ret([w EXCEPT !.f.state = "Empty"], ReadyRes(w.f.pos, w.f.buf))

\* ReadExact::poll
ReadExact_poll(f, r, w) ==
    LET w0 == [f |-> f, rd |-> r, wr |-> w, log |-> <<>>]
    IN IF f.state = "Empty" THEN Ret(w0, PanicRes) ELSE ReadExactLoop(w0)

(***************************************************************************)
(* Read (futures-util/src/io/read.rs)                                      *)
(***************************************************************************)

\* read(rd, buf)
read(buf) == [kind |-> "Read", state |-> "Pending", buf |-> buf]

Read_poll_eof_is_error(f, r, w) ==
    LET w0 == [f |-> f, rd |-> r, wr |-> w, log |-> <<>>]
    IN IF f.state = "Empty"
       THEN Ret(w0, PanicRes)
       ELSE LET x == poll_read_core(r, Len(f.buf))
                w1 == [w0 EXCEPT !.rd = x.rd,
                                 !.f.buf = WriteAt(@, 0, x.bytes),
                                 !.log = <<Call("read", 0, Len(f.buf), x.t, x.n)>>]
            IN IF x.t # "Ready" THEN TryReady(w1, x.t, x.n)
               ELSE IF x.n = 0 /\ Len(f.buf) > 0 THEN Ret(w1, ErrRes("unexpected_eof"))
               ELSE Ret([w1 EXCEPT !.f.state = "Empty"], ReadyRes(x.n, w1.f.buf))

Read_poll_take_early(f, r, w) ==
    LET w0 == [f |-> f, rd |-> r, wr |-> w, log |-> <<>>]
    IN IF f.state = "Empty"
       THEN Ret(w0, PanicRes)
       ELSE LET x == poll_read_core(r, Len(f.buf))
                w1 == [w0 EXCEPT !.rd = x.rd,
                                 !.f.buf = WriteAt(@, 0, x.bytes),
                                 !.f.state = "Empty",
                                 !.log = <<Call("read", 0, Len(f.buf), x.t, x.n)>>]
            IN IF x.t # "Ready" THEN TryReady(w1, x.t, x.n)
               ELSE Ret(w1, ReadyRes(x.n, w1.f.buf))

\* Read::poll
Read_poll(f, r, w) ==
    LET w0 == [f |-> f, rd |-> r, wr |-> w, log |-> <<>>]
    IN IF f.state = "Empty"
       THEN Ret(w0, PanicRes)
       ELSE LET x == poll_read_core(r, Len(f.buf))
                w1 == [w0 EXCEPT !.rd = x.rd,
                                 !.f.buf = WriteAt(@, 0, x.bytes),
                                 !.log = <<Call("read", 0, Len(f.buf), x.t, x.n)>>]
            IN IF x.t # "Ready" THEN TryReady(w1, x.t, x.n)
               ELSE Ret([w1 EXCEPT !.f.state = "Empty"], ReadyRes(x.n, w1.f.buf))

(***************************************************************************)
(* Flush and Close (futures-util/src/io/flush.rs, close.rs)                *)
(***************************************************************************)

\* flush(a)
flush == [kind |-> "Flush", a |-> TRUE]

\* close(a)
close == [kind |-> "Close", a |-> TRUE]

Flush_poll_keep(f, r, w) ==
    LET w0 == [f |-> f, rd |-> r, wr |-> w, log |-> <<>>]
        x == poll_flush_core(w)
        w1 == [w0 EXCEPT !.wr = x.wr, !.log = <<Call("flush", 0, 0, x.t, x.n)>>]
    IN IF x.t # "Ready" THEN TryReady(w1, x.t, x.n) ELSE Ret(w1, ReadyRes(0, NoBytes))

\* Flush::poll
Flush_poll(f, r, w) ==
    LET w0 == [f |-> f, rd |-> r, wr |-> w, log |-> <<>>]
    IN IF ~f.a
       THEN Ret(w0, PanicRes)
       ELSE LET x == poll_flush_core(w)
                w1 == [w0 EXCEPT !.wr = x.wr, !.log = <<Call("flush", 0, 0, x.t, x.n)>>]
            IN IF x.t # "Ready" THEN TryReady(w1, x.t, x.n)
               ELSE Ret([w1 EXCEPT !.f.a = FALSE], ReadyRes(0, NoBytes))

Close_poll_flush(f, r, w) ==
    LET w0 == [f |-> f, rd |-> r, wr |-> w, log |-> <<>>]
    IN IF ~f.a
       THEN Ret(w0, PanicRes)
       ELSE LET x == poll_flush_core(w)
                w1 == [w0 EXCEPT !.wr = x.wr, !.log = <<Call("flush", 0, 0, x.t, x.n)>>]
            IN IF x.t # "Ready" THEN TryReady(w1, x.t, x.n)
               ELSE Ret([w1 EXCEPT !.f.a = FALSE], ReadyRes(0, NoBytes))

\* Close::poll
Close_poll(f, r, w) ==
    LET w0 == [f |-> f, rd |-> r, wr |-> w, log |-> <<>>]
    IN IF ~f.a
       THEN Ret(w0, PanicRes)
       ELSE LET x == poll_close_core(w)
                w1 == [w0 EXCEPT !.wr = x.wr, !.log = <<Call("close", 0, 0, x.t, x.n)>>]
            IN IF x.t # "Ready" THEN TryReady(w1, x.t, x.n)
               ELSE Ret([w1 EXCEPT !.f.a = FALSE], ReadyRes(0, NoBytes))

(***************************************************************************)
(* The combinators under a task that polls them                            *)
(***************************************************************************)

\* Whether the combinator still owns its resources.
Active(f) ==
    IF f.kind = "CopyInto" THEN f.reader /\ f.writer /\ f.buf_some
    ELSE IF f.kind \in {"ReadExact", "Read"} THEN f.state # "Empty"
    ELSE f.a

\* The poll's effect; res also keeps the tag of the poll before (prev).
Polled(o) ==
    /\ fut' = o.f
    /\ rd' = o.rd
    /\ wr' = o.wr
    /\ log' = o.log
    /\ res' = [t |-> o.res.t, n |-> o.res.n, err |-> o.res.err, buf |-> o.res.buf,
               code |-> o.res.code, prev |-> res.t, pn |-> res.n]
    /\ UNCHANGED <<rbVars, splitVars>>

PollCopyInto == fut.kind = "CopyInto" /\ Polled(CopyInto_poll(fut, rd, wr))
PollReadExact == fut.kind = "ReadExact" /\ Polled(ReadExact_poll(fut, rd, wr))
PollRead == fut.kind = "Read" /\ Polled(Read_poll(fut, rd, wr))
PollFlush == fut.kind = "Flush" /\ Polled(Flush_poll(fut, rd, wr))
PollClose == fut.kind = "Close" /\ Polled(Close_poll(fut, rd, wr))

NoReader == [data |-> NoBytes, at |-> 0, script |-> <<>>]
NoWriter == [out |-> NoBytes, wscript |-> <<>>, fscript |-> <<>>]
Zeroed(n) == [i \in 1..n |-> 0]

InitIo ==
    /\ \E a \in 0..MaxScript : \E b \in 0..(MaxScript - a) :
       \E c \in 0..Min(1, MaxScript - a - b) :
       \E l \in 0..MaxStream : \E rs \in [1..a -> ReadEntries] :
       \E ws \in [1..b -> WriteEntries] : \E fs \in [1..c -> FlushEntries] :
       \E n \in 0..MaxBuf :
          \/ /\ fut = copy_into(Zeroed(n))
             /\ rd = [data |-> Stream(l), at |-> 0, script |-> rs]
             /\ wr = [out |-> NoBytes, wscript |-> ws, fscript |-> fs]
          \/ /\ fut \in {read_exact(Zeroed(n)), read(Zeroed(n))}
             /\ b = 0 /\ c = 0
             /\ rd = [data |-> Stream(l), at |-> 0, script |-> rs]
             /\ wr = NoWriter
          \/ /\ fut \in {flush, close}
             /\ a = 0 /\ b = 0 /\ l = 0 /\ n = 0
             /\ rd = NoReader
             /\ wr = [out |-> NoBytes, wscript |-> <<>>, fscript |-> fs]
    /\ res = [t |-> "None", n |-> 0, err |-> "", buf |-> NoBytes, code |-> 0,
              prev |-> "None", pn |-> 0]
    /\ log = <<>>
    /\ IdleReadBuf
    /\ IdleSplit

NextIo ==
    \/ PollCopyInto
    \/ PollReadExact
    \/ PollRead
    \/ PollFlush
    \/ PollClose

SpecIo == InitIo /\ [][NextIo]_vars

(***************************************************************************)
(* ReadToEnd (futures-util/src/io/read_to_end.rs)                          *)
(***************************************************************************)

\* Longest vector handed to read_to_end, and its largest spare capacity.
MaxStart == 1
MaxSpare == 2

\* The additional capacity read_to_end_internal reserves when the vector is full.
ReserveAdditional == 32

\* A Vec<u8>: its allocation (bytes, one entry per byte of capacity) and len.
Vec(bytes, length) == [bytes |-> bytes, len |-> length]
capacity(v) == Len(v.bytes)

\* Vec::reserve(additional) on a full vector: amortized growth to at least
\* len + additional; the contents move, the new spare bytes are unwritten.
reserve(v, additional) ==
    LET newcap == Max(2 * capacity(v), v.len + additional)
    IN [v EXCEPT !.bytes = SubSeq(v.bytes, 1, v.len) \o Fresh(newcap - v.len)]

\* ReadToEnd::new
ReadToEnd_new(v) ==
    [kind |-> "ReadToEnd", vec |-> v, start_len |-> v.len, initialized |-> 0]

\* The ways a reader hands bytes over through the ReadBuf it is given.
\*   assume_init          write into the unfilled part, then assume_init and
\*                        add_filled (a reader that trusts its own writes);
\*   initialize_unfilled  write into the slice initialize_unfilled returns,
\*                        then add_filled (a reader built on poll_read);
\*   append               ReadBuf::append of the bytes;
\*   assume_init_all      zero the whole unfilled part by hand and assume_init
\*                        all of it, then write and add_filled (a reader that
\*                        initializes the buffer it is given once).
ReaderStyles == {"assume_init", "initialize_unfilled", "append", "assume_init_all"}

\* The room a reader of style how sees in b.
ReaderRoom(how, b, checks) ==
    IF how = "initialize_unfilled"
    THEN LET z == initialize_unfilled(b) IN IF z.panic THEN 0 ELSE z.hi - z.lo
    ELSE remaining(b, checks).n

\* A reader of style how hands bytes over through b.
ReaderFill(how, b, bytes, checks) ==
    IF how = "append" THEN append(b, bytes, checks)
    ELSE IF how = "initialize_unfilled"
    THEN LET z == initialize_unfilled(b)
         IN IF z.panic THEN z
            ELSE add_filled([z.b EXCEPT !.buf = WriteAt(@, z.lo, bytes)], Len(bytes))
    ELSE IF how = "assume_init_all"
    THEN add_filled(
             assume_init(
                 [b EXCEPT !.buf = WriteAt(
                     [i \in 1..len(b) |->
                         IF i > b.initialized /\ i > b.filled THEN 0 ELSE b.buf[i]],
                     b.filled, bytes)],
                 len(b)).b,
             Len(bytes))
    ELSE add_filled(
             assume_init([b EXCEPT !.buf = WriteAt(@, b.filled, bytes)],
                         b.filled + Len(bytes)).b,
             Len(bytes))

\* AsyncRead::poll_read_buf: the next scripted response of the reader, or,
\* with the script used up, as many bytes as it sees room for.
poll_read_buf(r, b) ==
    LET room == ReaderRoom(r.how, b, r.checks)
        e == IF r.script = <<>> THEN [t |-> "Ready", n |-> room] ELSE Head(r.script)
        rest == IF r.script = <<>> THEN <<>> ELSE Tail(r.script)
        k == Min(Min(e.n, room), Len(r.data) - r.at)
        x == ReaderFill(r.how, b, SubSeq(r.data, r.at + 1, r.at + k), r.checks)
    IN IF e.t = "Ready"
       THEN [rd |-> [r EXCEPT !.at = @ + k, !.script = rest],
             t |-> IF x.panic THEN "Panic" ELSE "Ready", n |-> 0, b |-> x.b]
       ELSE [rd |-> [r EXCEPT !.script = rest], t |-> e.t, n |-> e.n, b |-> b]

\* One poll_read_buf call of read_to_end_internal: the vector's length and
\* spare capacity, the initialized count carried into the ReadBuf, whether
\* the vector was full and reserve ran before the call, and what the call
\* returned (n is the filled count).
ReadBufCall(off, length, init, reserved, t, n) ==
    [op |-> "read_buf", off |-> off, len |-> length, t |-> t,
     n |-> IF t = "Err" THEN 0 ELSE n, err |-> IF t = "Err" THEN n ELSE 0,
     init |-> init, reserved |-> reserved]

Carried_whole(b) == b.initialized

\* *initialized = read_buf.initialized().len() - read_buf.filled().len()
Carried(b) == b.initialized - b.filled

set_len_capacity(v, n) == [v EXCEPT !.len = capacity(v)]

\* Vec::set_len
set_len(v, n) == [v EXCEPT !.len = n]

RECURSIVE read_to_end_internal(_, _)

\* One round of the loop of read_to_end_internal, and the rounds after it.
read_to_end_internal(w, start_len) ==
    LET v == IF capacity(w.f.vec) = w.f.vec.len
             THEN reserve(w.f.vec, ReserveAdditional) ELSE w.f.vec
        spare_len == capacity(v) - v.len
        read_buf == assume_init(
            ReadBuf_uninit(SubSeq(v.bytes, v.len + 1, capacity(v))),
            w.f.initialized).b
        x == poll_read_buf(w.rd, read_buf)
        w1 == [w EXCEPT !.rd = x.rd,
                        !.f.vec = [v EXCEPT !.bytes = SubSeq(v.bytes, 1, v.len) \o x.b.buf],
                        !.log = Append(@, ReadBufCall(v.len, spare_len,
                                       w.f.initialized,
                                       capacity(w.f.vec) = w.f.vec.len, x.t,
                                       IF x.t = "Err" THEN x.n ELSE x.b.filled))]
    IN IF spare_len <= 0 THEN Ret([w EXCEPT !.f.vec = v], PanicRes)
       ELSE IF x.t = "Panic" THEN Ret(w1, PanicRes)
       ELSE IF x.t # "Ready" THEN TryReady(w1, x.t, x.n)
       ELSE IF x.b.filled = 0
            THEN Ret(w1, ReadyRes(w1.f.vec.len - start_len, NoBytes))
       ELSE IF x.b.initialized > len(x.b) THEN Ret(w1, PanicRes)
       ELSE read_to_end_internal(
                [w1 EXCEPT !.f.initialized = Carried(x.b),
                           !.f.vec = set_len(@, v.len + x.b.filled)],
                start_len)

ReadToEnd_poll_restart(f, r, w) ==
    read_to_end_internal([f |-> f, rd |-> r, wr |-> w, log |-> <<>>], f.vec.len)

\* ReadToEnd::poll
ReadToEnd_poll(f, r, w) ==
    read_to_end_internal([f |-> f, rd |-> r, wr |-> w, log |-> <<>>], f.start_len)

PollReadToEnd == fut.kind = "ReadToEnd" /\ Polled(ReadToEnd_poll(fut, rd, wr))

InitReadToEnd ==
    /\ \E s \in 0..MaxStart : \E sp \in 0..MaxSpare :
          fut = ReadToEnd_new(Vec(Zeroed(s) \o Fresh(sp), s))
    /\ \E a \in 0..MaxScript : \E l \in 0..MaxStream : \E rs \in [1..a -> ReadEntries] :
       \E how \in ReaderStyles : \E checks \in OverflowChecks :
          rd = [data |-> Stream(l), at |-> 0, script |-> rs, how |-> how,
                checks |-> checks]
    /\ wr = NoWriter
    /\ res = [t |-> "None", n |-> 0, err |-> "", buf |-> NoBytes, code |-> 0,
              prev |-> "None", pn |-> 0]
    /\ log = <<>>
    /\ IdleReadBuf
    /\ IdleSplit

NextReadToEnd == PollReadToEnd

SpecReadToEnd == InitReadToEnd /\ [][NextReadToEnd]_vars

\* Every combinator of the module, each under the task that polls it.
InitCombinators == InitIo \/ InitReadToEnd
NextCombinators == NextIo \/ NextReadToEnd
SpecCombinators == InitCombinators /\ [][NextCombinators]_vars

(***************************************************************************)
(* Properties                                                              *)
(***************************************************************************)

Combinators == {"CopyInto", "ReadExact", "Read", "Flush", "Close"}

CursorOrdered(b) == 0 <= b.filled /\ b.filled <= b.initialized /\ b.initialized <= len(b)

\* C1 as stated: after every ReadBuf call, aborting or not, 0 <= filled <=
\* initialized <= capacity. (A call that aborts changes nothing.)
C1_CursorAlwaysOrdered == CursorOrdered(rb)

\* C1, amended: the ReadBuf starts with 0 <= filled <= initialized <= capacity,
\* and every call keeps that ordering, except an assume_init(n) with
\* n > capacity, which asserts more initialized bytes than the buffer has.
C1_CursorOrderedUnlessOverclaimed ==
    /\ CursorOrdered(rb)
    /\ [][(CursorOrdered(rb) /\ ~(rbLast'.op = "assume_init" /\ rbLast'.n > len(rb)))
             => CursorOrdered(rb')]_vars

\* C1 witness: add_filled has moved filled up to initialized, at the very end
\* of a non-empty buffer.
C1_Witness ==
    /\ rbLast.op = "add_filled" /\ ~rbLast.panic /\ rbLast.n > 0
    /\ rb.filled = rb.initialized /\ rb.initialized = len(rb)

\* C2: no ReadBuf call decreases initialized (its value after the call is at
\* least its value before), and filled stays inside [0, initialized].
C2_InitializedNeverShrinks ==
    /\ rb.initialized >= rbLast.init0
    /\ 0 <= rb.filled /\ rb.filled <= rb.initialized

\* C2 witness: assume_init was called with less than what was already
\* initialized, while some bytes are filled.
C2_Witness ==
    /\ rbLast.op = "assume_init" /\ rbLast.n < rbLast.init0
    /\ rb.filled > 0

\* C3: at most one split handle is inside a call of the shared resource.
C3_MutualExclusion == Cardinality(inRes) <= 1

\* C3 witness: one handle is inside the resource while the other handle's
\* call found the lock held and returned Pending.
C3_Witness ==
    \E h \in Handles : \E g \in Handles \ {h} :
        /\ hs[h].pc = "in_f" /\ h \in inRes
        /\ hs[g].pc = "idle" /\ hs[g].ret = "Pending" /\ lock.waiter = g

\* C4: with a copy buffer of at least one byte, a CopyInto that returns Ready
\* returns the length of the reader's stream as its count, and the writer has
\* received exactly the stream, in order; a poll returns Pending only when
\* the reader or the writer did, and an error only when one of them failed
\* or a write accepted zero bytes, so with neither it completes.
C4_CopyComplete ==
    fut.kind = "CopyInto" =>
        /\ (res.t = "Ready" /\ Len(fut.buf) >= 1) =>
               (res.n = Len(rd.data) /\ wr.out = rd.data)
        /\ res.t = "Pending" => (log # <<>> /\ log[Len(log)].t = "Pending")
        /\ res.t = "Err" =>
               /\ log # <<>>
               /\ \/ log[Len(log)].t = "Err"
                  \/ log[Len(log)].op = "write" /\ log[Len(log)].n = 0

\* C4 witness: a copy of three or more bytes through a one-byte buffer is done.
C4_Witness ==
    /\ fut.kind = "CopyInto" /\ res.t = "Ready"
    /\ Len(fut.buf) = 1 /\ res.n >= 3 /\ res.prev = "Pending"

\* C5: when a write of a non-empty slice returns Ready(0), that write is the
\* last call of the poll and the poll returns the write_zero error.
C5_WriteZeroFatal ==
    fut.kind = "CopyInto" =>
        \A i \in 1..Len(log) :
            (log[i].op = "write" /\ log[i].t = "Ready" /\ log[i].n = 0 /\ log[i].len > 0)
                => (i = Len(log) /\ res.t = "Err" /\ res.err = "write_zero")

\* C5 witness: a poll read and wrote some bytes and then met a zero-byte write.
C5_Witness ==
    /\ fut.kind = "CopyInto" /\ res.err = "write_zero"
    /\ Len(log) >= 3 /\ fut.amt > 0

\* C6: a ReadExact poll in which the reader returns Ready(0) with the buffer
\* not yet full returns the unexpected_eof error right after that read, and
\* no poll reports success when the stream is shorter than the buffer.
C6_ShortStreamFails ==
    fut.kind = "ReadExact" =>
        /\ \A i \in 1..Len(log) :
              (log[i].t = "Ready" /\ log[i].n = 0 /\ log[i].len > 0)
                  => (i = Len(log) /\ res.t = "Err" /\ res.err = "unexpected_eof")
        /\ Len(rd.data) < Len(fut.buf) => res.t # "Ready"

\* C6 witness: the reader gave some bytes and then end-of-stream.
C6_Witness ==
    /\ fut.kind = "ReadExact" /\ res.err = "unexpected_eof"
    /\ fut.pos > 0 /\ Len(log) >= 2

\* C7: every read of ReadExact is offered exactly buf[pos..], pos advances by
\* the count each read reports (so pos is the number of bytes taken from the
\* reader), success comes only with pos = buf.len() and the buffer holding
\* the first buf.len() bytes of the stream, and an empty buffer succeeds on
\* the first poll without a read.
C7_ReadExactFills ==
    fut.kind = "ReadExact" =>
        /\ fut.pos = rd.at
        /\ \A i \in 1..Len(log) :
              /\ log[i].op = "read"
              /\ log[i].off + log[i].len = Len(fut.buf)
              /\ i < Len(log) => log[i + 1].off = log[i].off + log[i].n
              /\ i = Len(log) => fut.pos = log[i].off + log[i].n
        /\ res.t = "Ready" =>
              /\ fut.pos = Len(fut.buf)
              /\ res.buf = SubSeq(rd.data, 1, Len(fut.buf))
        /\ (Len(fut.buf) = 0 /\ res.prev = "None" /\ res.t # "None") =>
              (res.t = "Ready" /\ log = <<>>)

\* C7 witness: a buffer of two or more bytes was filled by several reads.
C7_Witness ==
    /\ fut.kind = "ReadExact" /\ res.t = "Ready"
    /\ Len(res.buf) >= 2 /\ Len(log) >= 2

\* C8: CopyInto, ReadExact, Read, Flush and Close give up their resources
\* exactly on the poll that returns Ready; every poll after it panics and
\* makes no call on reader or writer, and nothing else makes a poll panic.
C8_PollAfterReadyPanics ==
    fut.kind \in Combinators =>
        /\ res.t = "Ready" => ~Active(fut)
        /\ ~Active(fut) => res.t \in {"Ready", "Panic"}
        /\ res.prev \in {"Ready", "Panic"} => (res.t = "Panic" /\ log = <<>>)
        /\ res.t = "Panic" => res.prev \in {"Ready", "Panic"}

\* C8 witness: a completed CopyInto was polled again.
C8_Witness == fut.kind = "CopyInto" /\ res.prev = "Ready" /\ res.t = "Panic"

\* C9 as stated: after ReadToEnd returned Ready, a further poll is reported
\* as a usage error and does not poll the reader.
C9_RepollReported == res.prev = "Ready" => (res.t = "Panic" /\ log = <<>>)

\* What ReadToEnd::poll does instead of C9: it has no Completed state, so
\* after the poll that returned Ready(total) a further poll polls the reader
\* again and returns what that read yields, Ready(total) with the same total
\* when the reader is still at end-of-stream.
C9_RepollReadsAgain ==
    res.prev = "Ready" =>
        /\ res.t \in {"Ready", "Pending", "Err"}
        /\ log # <<>> /\ log[1].op = "read_buf"
        /\ res.t = "Ready" => res.n = res.pn

\* The divergence of C9 reached: ReadToEnd returned Ready twice in a row
\* after appending bytes.
C9_Witness == res.prev = "Ready" /\ res.t = "Ready" /\ res.n > 0 /\ Len(log) = 1

\* C10 as stated: after a poll returned an error, a later poll is reported
\* as a usage error and makes no call on the underlying resource.
C10_ErrorCompletes ==
    (fut.kind \in Combinators /\ res.prev = "Err") => (res.t = "Panic" /\ log = <<>>)

\* C10, amended: a poll that returns an error returns it right after the
\* failing call, without repeating that call in the same poll; the combinator
\* stays Active with its resources, and a later poll is not reported as a
\* usage error but calls the underlying resource again.
C10_ErrorLeavesActive ==
    fut.kind \in Combinators =>
        /\ res.t = "Err" =>
              /\ Active(fut)
              /\ log # <<>>
              /\ \/ log[Len(log)].t = "Err" /\ res.err = "io"
                 \/ /\ log[Len(log)].t = "Ready" /\ log[Len(log)].n = 0
                    /\ res.err = IF log[Len(log)].op = "write" THEN "write_zero"
                                 ELSE "unexpected_eof"
              /\ \A i \in 1..(Len(log) - 1) :
                    /\ log[i].t = "Ready"
                    /\ log[i].n = 0 => (fut.kind = "CopyInto" /\ log[i].op = "read")
        /\ res.prev = "Err" => (res.t # "Panic" /\ log # <<>>)

\* C10 witness: a combinator returned an error and completed on the poll after.
C10_Witness == fut.kind \in Combinators /\ res.prev = "Err" /\ res.t = "Ready"

\* Every call the last poll made on the reader and the writer was ready: no
\* Pending, no error, and no zero-byte write.
AllReady(l) ==
    \A i \in 1..Len(l) : l[i].t = "Ready" /\ (l[i].op = "write" => l[i].n > 0)

ReaderCombinators == {"Read", "ReadExact", "CopyInto"}

\* C11 (as stated): a poll in which the reader reports Pending returns
\* Pending, and when every call of the poll after it is ready, that poll
\* returns Ready.
C11_PendingOnceThenReady ==
    fut.kind \in ReaderCombinators =>
        /\ (\E i \in 1..Len(log) : log[i].t = "Pending") => res.t = "Pending"
        /\ (res.prev = "Pending" /\ AllReady(log)) => res.t = "Ready"

\* C11 (amended): a poll in which the reader reports Pending returns Pending
\* right after that call, and when every call of the poll after it is ready,
\* that poll completes: it returns Ready, or, for ReadExact on a stream that
\* ends before the buffer is full, the unexpected_eof error.  It never
\* returns Pending a second time.
C11_PendingOnceThenComplete ==
    fut.kind \in ReaderCombinators =>
        /\ \A i \in 1..Len(log) :
              log[i].t = "Pending" => res.t = "Pending" /\ i = Len(log)
        /\ (res.prev = "Pending" /\ AllReady(log)) =>
              \/ res.t = "Ready"
              \/ /\ fut.kind = "ReadExact"
                 /\ Len(rd.data) < Len(fut.buf)
                 /\ res.t = "Err" /\ res.err = "unexpected_eof"
                 /\ log[Len(log)].op = "read" /\ log[Len(log)].n = 0

C11_Witness ==
    /\ fut.kind \in ReaderCombinators
    /\ res.prev = "Pending" /\ res.pn = 0
    /\ res.t = "Ready" /\ res.n > 0
    /\ Len(log) > 0 /\ AllReady(log)

\* C12: CopyInto flushes only once the reader has reported end-of-stream
\* (Ready(0)) and the writer has accepted every byte read (pos = cap); the
\* flush is the last call of its poll, so no write follows it; and a poll
\* returns Ready only when its last call was a flush that returned Ready.
C12_ReadyOnlyAfterEofDrainFlush ==
    fut.kind = "CopyInto" =>
        /\ fut.read_done => rd.at = Len(rd.data) \/ Len(fut.buf) = 0
        /\ \A i \in 1..Len(log) :
              log[i].op = "flush" =>
                 /\ i = Len(log)
                 /\ fut.read_done /\ fut.pos = fut.cap
                 /\ wr.out = SubSeq(rd.data, 1, rd.at)
                 /\ \A j \in 1..(i - 1) : log[j].t = "Ready"
        /\ res.t = "Ready" =>
              /\ Len(log) > 0
              /\ log[Len(log)].op = "flush" /\ log[Len(log)].t = "Ready"

C12_Witness ==
    /\ fut.kind = "CopyInto" /\ res.t = "Ready" /\ res.n >= 2
    /\ res.prev = "Pending"
    /\ Len(log) >= 3
    /\ \E i \in 1..Len(log) : log[i].op = "read" /\ log[i].n = 0
    /\ \E i \in 1..Len(log) : log[i].op = "write"

\* C13: when ReadToEnd returns Ready(n), the reader is at end-of-stream, n is
\* the vector's length minus its length at construction, and the vector is
\* its original contents followed by exactly the bytes the reader produced,
\* in order.
C13_ReadToEndCollectsAll ==
    (fut.kind = "ReadToEnd" /\ res.t = "Ready") =>
        /\ rd.at = Len(rd.data)
        /\ res.n = fut.vec.len - fut.start_len
        /\ SubSeq(fut.vec.bytes, 1, fut.vec.len)
              = Zeroed(fut.start_len) \o SubSeq(rd.data, 1, rd.at)

\* C14: initialize_unfilled_to(n) with n <= capacity does not abort, writes
\* zero to exactly the bytes of [initialized, n) and to no other, leaves
\* initialized = max(old initialized, n) and leaves filled unchanged; with
\* n <= initialized it changes nothing.
C14_ZeroFillRaisesInitialized ==
    [][(rbLast'.op = "initialize_unfilled_to" /\ rbLast'.n <= len(rb)) =>
          /\ ~rbLast'.panic
          /\ rb'.initialized = Max(rb.initialized, rbLast'.n)
          /\ rb'.filled = rb.filled
          /\ rb'.buf = [i \in 1..len(rb) |->
                IF i > rb.initialized /\ i <= rbLast'.n THEN 0 ELSE rb.buf[i]]]_vars

\* C15: a second initialize_unfilled_to(n) with the same n, with nothing in
\* between but writes through the slice the first call returned, does not
\* abort and changes neither the cursor nor any byte: no byte of [0, n) is
\* zeroed again.  (A first call made as initialize_unfilled() is the call
\* with n = capacity.)
C15_ZeroFillIdempotent ==
    [][(/\ rbLast.op \in {"initialize_unfilled_to", "write_returned"}
        /\ ~rbLast.panic
        /\ rbLast'.op = "initialize_unfilled_to"
        /\ rbLast'.n = rbLast.n) =>
          (~rbLast'.panic /\ rb' = rb)]_vars

\* C16: initialize_unfilled_to(n) aborts exactly when remaining() < n, and
\* otherwise returns the slice [filled, filled + n), whose bytes are all
\* initialized. (Stated for filled <= capacity, where remaining() is
\* capacity - filled in every build.)
C16_ZeroFillReturnsUnfilledHead ==
    (rbLast.op = "initialize_unfilled_to" /\ rbLast.filled0 <= len(rb)) =>
        /\ rbLast.panic <=> (len(rb) - rbLast.filled0 < rbLast.n)
        /\ ~rbLast.panic =>
              /\ rbLast.lo = rbLast.filled0
              /\ rbLast.hi = rbLast.filled0 + rbLast.n
              /\ \A i \in (rbLast.lo + 1)..rbLast.hi : rb.buf[i] # Uninit

\* C17: initialize_unfilled_to(n) with n > capacity aborts, and the abort
\* comes before any byte is written and before filled or initialized change:
\* the ReadBuf after the call is the ReadBuf before it.
C17_ZeroFillBeyondCapacityAborts ==
    [][(rbLast'.op = "initialize_unfilled_to" /\ rbLast'.n > len(rb)) =>
          (rbLast'.panic /\ rb' = rb)]_vars

\* C17 witness: the aborted call was made on a buffer that still had
\* uninitialized bytes it would have zeroed.
C17_Witness ==
    /\ rbLast.op = "initialize_unfilled_to" /\ rbLast.n > len(rb) /\ rbLast.panic
    /\ rb.initialized < len(rb)
    /\ \E i \in 1..len(rb) : rb.buf[i] = Uninit

\* C18: add_filled(n) sets filled to filled + n and leaves initialized
\* unchanged when filled + n <= initialized; when the sum is larger, or
\* leaves usize, it aborts and leaves filled and initialized unchanged.
C18_AddFilledChecked ==
    rbLast.op = "add_filled" =>
        IF rbLast.filled0 + rbLast.n <= UsizeMax
              /\ rbLast.filled0 + rbLast.n <= rbLast.init0
        THEN ~rbLast.panic /\ rb.filled = rbLast.filled0 + rbLast.n
                /\ rb.initialized = rbLast.init0
        ELSE rbLast.panic /\ rb.filled = rbLast.filled0
                /\ rb.initialized = rbLast.init0

\* C18 witness: the sum filled + n left usize, and would have wrapped to a
\* value below initialized.
C18_Witness ==
    /\ rbLast.op = "add_filled" /\ rbLast.panic
    /\ rbLast.filled0 + rbLast.n > UsizeMax
    /\ (rbLast.filled0 + rbLast.n) % (UsizeMax + 1) <= rbLast.init0

\* C19: set_filled(n) sets filled to n for every n <= initialized, smaller
\* than the old filled or not, and leaves initialized unchanged; with
\* n > initialized it aborts and leaves filled and initialized unchanged.
C19_SetFilledChecked ==
    rbLast.op = "set_filled" =>
        IF rbLast.n <= rbLast.init0
        THEN ~rbLast.panic /\ rb.filled = rbLast.n /\ rb.initialized = rbLast.init0
        ELSE rbLast.panic /\ rb.filled = rbLast.filled0
                /\ rb.initialized = rbLast.init0

\* C19 witness: set_filled moved filled down.
C19_Witness ==
    /\ rbLast.op = "set_filled" /\ ~rbLast.panic
    /\ rbLast.n < rbLast.filled0 /\ rb.filled = rbLast.n

\* C20: append(bytes) with bytes.len() <= remaining() does not abort,
\* advances filled by bytes.len() and leaves initialized >= the new filled,
\* with the bytes of [old filled, new filled) written; with
\* bytes.len() > remaining() it aborts and leaves the cursor unchanged.
\* (Stated for filled <= capacity, where remaining() is capacity - filled in
\* every build.)
C20_AppendAdvancesFilled ==
    (rbLast.op = "append" /\ rbLast.filled0 <= len(rb)) =>
        IF rbLast.n <= len(rb) - rbLast.filled0
        THEN /\ ~rbLast.panic
             /\ rb.filled = rbLast.filled0 + rbLast.n
             /\ rb.initialized >= rb.filled
             /\ \A i \in (rbLast.filled0 + 1)..(rbLast.filled0 + rbLast.n) :
                   rb.buf[i] \in Bytes
        ELSE rbLast.panic /\ rb.filled = rbLast.filled0
                /\ rb.initialized = rbLast.init0

\* C21: clear() sets filled to 0 and leaves initialized, the capacity and
\* every byte of the buffer unchanged; it does not abort.
C21_ClearResetsFilledOnly ==
    [][rbLast'.op = "clear" =>
          (~rbLast'.panic /\ rb' = [rb EXCEPT !.filled = 0])]_vars

\* C21 witness: clear on a buffer with bytes filled and bytes initialized.
C21_Witness ==
    /\ rbLast.op = "clear" /\ rbLast.filled0 > 0
    /\ rb.filled = 0 /\ rb.initialized = rbLast.init0 /\ rb.initialized > 0

\* C22: assume_init(n) sets initialized to max(old initialized, n), writes
\* no byte and leaves filled unchanged; with n <= initialized it changes
\* nothing.
C22_AssumeInitRaisesOnly ==
    [][rbLast'.op = "assume_init" =>
          /\ ~rbLast'.panic
          /\ rb' = [rb EXCEPT !.initialized = Max(rb.initialized, rbLast'.n)]
          /\ rbLast'.n <= rb.initialized => rb' = rb]_vars

\* C22 witness: assume_init raised initialized over bytes that were never
\* written, and they are still unwritten.
C22_Witness ==
    /\ rbLast.op = "assume_init" /\ rbLast.n > rbLast.init0 /\ rbLast.n <= len(rb)
    /\ rb.initialized = rbLast.n
    /\ \A i \in (rbLast.init0 + 1)..rbLast.n : rb.buf[i] = Uninit

\* C23: with the safe operations only, every byte of filled() and of
\* initialized(), that is of [0, initialized) with filled <= initialized <=
\* capacity, and every byte of the slice an initialize_unfilled /
\* initialize_unfilled_to returned, has been written.
C23_NoUninitExposed ==
    /\ CursorOrdered(rb)
    /\ \A i \in 1..rb.initialized : rb.buf[i] # Uninit
    /\ (rbLast.op \in {"initialize_unfilled", "initialize_unfilled_to", "write_returned"}
          /\ ~rbLast.panic) =>
            /\ rbLast.hi <= len(rb)
            /\ \A i \in (rbLast.lo + 1)..rbLast.hi : rb.buf[i] # Uninit

\* C23 witness: a zero-fill on an uninitialized buffer returned a non-empty
\* slice, while bytes beyond it are still unwritten.
C23_Witness ==
    /\ rbLast.op = "initialize_unfilled_to" /\ ~rbLast.panic
    /\ rbLast.init0 = 0 /\ rbLast.hi > rbLast.lo /\ rbLast.hi < len(rb)
    /\ rb.buf[len(rb)] = Uninit

\* The last call of handle h returned Pending at the lock, without reaching
\* the resource.
LockPending(h) == hs[h].pc = "idle" /\ hs[h].ret = "Pending" /\ ~hs[h].reached

\* h waits for the lock: it got Pending at the lock and was not woken since.
Parked(h) == LockPending(h) /\ ~hs[h].woken

\* C24: a handle call that finds the lock held returns Pending without any
\* call on the resource, and its task is registered on the lock: it is the
\* lock's waiter until the release that wakes it.
C24_HeldLockGivesPending ==
    /\ [](\A h \in Handles :
             LockPending(h) =>
                /\ hs[h].calls = 0 /\ hs[h].called = "none" /\ h \notin inRes
                /\ lock.waiter = h \/ hs[h].woken)
    /\ [][\A h \in Handles :
             (hs[h].pc = "idle" /\ lock.held /\ lock'.held /\ hs'[h] # hs[h]) =>
                (LockPending(h)' /\ lock'.waiter = h /\ inRes' = inRes)]_vars

\* C24 witness: a handle was refused at the lock while the other handle is
\* inside the resource, and is registered as the waiter.
C24_Witness ==
    \E h \in Handles : \E g \in Handles \ {h} :
        /\ Parked(h) /\ lock.waiter = h /\ hs[h].op # "none"
        /\ hs[g].pc = "in_f" /\ lock.held

\* C25: the lock is held only while a handle call that acquired it is in
\* progress; every such call releases it on return, whatever the resource
\* returned, so with both handles outside a call the lock is free, and a
\* call made while the other handle is outside a call acquires the lock.
C25_LockReleasedOnReturn ==
    /\ [](lock.held => \E h \in Handles :
             hs[h].pc \in {"locked", "in_f", "f_done"} /\ hs[h].guard)
    /\ []((\A h \in Handles : hs[h].pc = "idle") => ~lock.held)
    /\ [][\A h \in Handles : \A g \in Handles \ {h} :
             (hs[h].pc = "idle" /\ hs[g].pc = "idle" /\ hs'[h] # hs[h]) =>
                hs'[h].pc = "locked"]_vars

\* C25 witness: a call whose resource operation returned Pending has
\* returned, and the other handle has taken the lock after it.
C25_Witness ==
    \E h \in Handles : \E g \in Handles \ {h} :
        /\ hs[h].pc = "idle" /\ hs[h].reached /\ hs[h].ret = "Pending"
        /\ hs[g].pc = "in_f" /\ hs[g].guard /\ lock.held

\* C26 (as stated): under fair scheduling a handle that got Pending at the
\* lock eventually acquires the lock and reaches the resource.
C26_ParkedEventuallyReaches ==
    \A h \in Handles : Parked(h) ~> hs[h].reached

\* C26 (amended): under fair scheduling a handle that waits for the lock is
\* woken when the other handle releases it (or polls again on its own), a
\* woken handle is polled again, a poll that finds the lock free acquires it
\* and reaches the resource, and the two handles never both wait.
C26_NoLostWakeup ==
    /\ [](~(Parked("read") /\ Parked("write")))
    /\ \A h \in Handles : Parked(h) ~> (hs[h].woken \/ hs[h].pc # "idle")
    /\ \A h \in Handles : hs[h].woken ~> ~hs[h].woken
    /\ \A h \in Handles : (hs[h].pc = "locked") ~> hs[h].reached
    /\ [][\A h \in Handles :
             (hs[h].pc = "idle" /\ ~lock.held /\ hs'[h] # hs[h]) =>
                hs'[h].pc = "locked"]_vars

\* C26 witness: a handle that was woken polled again and is inside the
\* resource.
C26_Witness ==
    \E h \in Handles : hs[h].retried /\ hs[h].pc = "in_f" /\ h \in inRes

\* C27: a handle call that acquired the lock made exactly one call on the
\* resource, of the operation of the same name with the same argument, and
\* returned that call's result unchanged.
C27_HandleForwardsOneCall ==
    \A h \in Handles :
        /\ hs[h].calls <= 1
        /\ hs[h].reached =>
              /\ hs[h].calls = 1
              /\ hs[h].called = hs[h].op /\ hs[h].farg = hs[h].arg
        /\ (hs[h].pc = "idle" /\ hs[h].reached) => hs[h].ret = hs[h].fret
        /\ (hs[h].pc \in {"in_f", "f_done"}) => hs[h].reached

\* C27 witness: a vectored write went through the write half and its result
\* came back.
C27_Witness ==
    /\ hs["write"].pc = "idle" /\ hs["write"].reached
    /\ hs["write"].op = "poll_vectored_write" /\ hs["write"].arg = 1
    /\ hs["write"].called = "poll_vectored_write" /\ hs["write"].farg = 1
    /\ hs["write"].ret = "Err"

\* What a combinator has saved agrees with what the reader has handed out and
\* the writer has taken: nothing is lost, read twice or written twice.
ProgressKept ==
    IF fut.kind = "CopyInto"
    THEN /\ 0 <= fut.pos /\ fut.pos <= fut.cap /\ fut.cap <= Len(fut.buf)
         /\ fut.amt = Len(wr.out)
         /\ wr.out = SubSeq(rd.data, 1, fut.amt)
         /\ rd.at = fut.amt + (fut.cap - fut.pos)
         /\ SubSeq(fut.buf, fut.pos + 1, fut.cap) = SubSeq(rd.data, fut.amt + 1, rd.at)
         /\ fut.read_done => rd.at = Len(rd.data) \/ Len(fut.buf) = 0
    ELSE IF fut.kind = "ReadExact"
    THEN /\ fut.pos = rd.at /\ fut.pos <= Len(fut.buf)
         /\ SubSeq(fut.buf, 1, fut.pos) = SubSeq(rd.data, 1, fut.pos)
    ELSE IF fut.kind = "Read"
    THEN rd.at = 0 /\ fut.buf = Zeroed(Len(fut.buf))
    ELSE wr.out = NoBytes

\* C28: a poll in which the reader or the writer returns Pending returns
\* Pending right after that call; the combinator is then still Active and
\* its progress fields and buffer hold exactly what was read and not yet
\* written, so the next poll resumes there.
C28_PendingKeepsProgress ==
    fut.kind \in Combinators =>
        /\ \A i \in 1..Len(log) :
              log[i].t = "Pending" => (i = Len(log) /\ res.t = "Pending")
        /\ res.t = "Pending" =>
              /\ Len(log) > 0 /\ log[Len(log)].t = "Pending"
              /\ Active(fut)
              /\ ProgressKept

\* C28 witness: CopyInto stopped at a Pending write with part of its buffer
\* written and part still to write.
C28_Witness ==
    /\ fut.kind = "CopyInto" /\ res.t = "Pending"
    /\ log[Len(log)].op = "write"
    /\ 0 < fut.pos /\ fut.pos < fut.cap

\* C29: an error returned by the reader or the writer during a poll of a
\* combinator (CopyInto, ReadExact, Read, Flush, Close, ReadToEnd) ends the
\* poll at that call, and the poll returns that error, with the same value;
\* and a poll returns a resource error only when its last call did.
C29_ErrorPassedUnchanged ==
    fut.kind \in Combinators \cup {"ReadToEnd"} =>
        /\ \A i \in 1..Len(log) :
              log[i].t = "Err" =>
                 /\ i = Len(log)
                 /\ res.t = "Err" /\ res.err = "io" /\ res.code = log[i].err
        /\ (res.t = "Err" /\ res.err = "io") =>
              (Len(log) > 0 /\ log[Len(log)].t = "Err")

\* C29 witness: the flush that ends a CopyInto with bytes copied failed with
\* the second error value, and the poll returned it.
C29_Witness ==
    /\ fut.kind = "CopyInto" /\ res.t = "Err" /\ res.err = "io" /\ res.code = 2
    /\ log[Len(log)].op = "flush" /\ log[Len(log)].err = 2
    /\ Len(wr.out) > 0

\* C30: a poll of Flush (of Close) that is not a usage error makes exactly
\* one call on its resource, poll_flush (poll_close), and returns what that
\* call returned: Pending keeps the resource in the future, Ready hands it
\* out; nothing is written to the resource.
C30_FlushCloseOneCall ==
    (fut.kind \in {"Flush", "Close"} /\ res.t # "None") =>
        /\ wr.out = NoBytes
        /\ IF res.t = "Panic" THEN log = <<>>
           ELSE /\ Len(log) = 1
                /\ log[1].op = (IF fut.kind = "Flush" THEN "flush" ELSE "close")
                /\ res.t = log[1].t
                /\ res.t = "Pending" => fut.a
                /\ res.t = "Ready" => ~fut.a /\ res.prev # "Ready"

\* C30 witness: Close resolved on the poll after a Pending one.
C30_Witness ==
    /\ fut.kind = "Close" /\ res.prev = "Pending" /\ res.t = "Ready"
    /\ log[1].op = "close" /\ ~fut.a

\* C31: a poll of Read that is not a usage error makes exactly one read
\* call, on the whole buffer, and returns what it returned; on Ready(n) it
\* resolves with that n, zero or short included, and with the buffer holding
\* the n bytes read, and gives up its state.
C31_ReadOneCall ==
    (fut.kind = "Read" /\ res.t \notin {"None", "Panic"}) =>
        /\ Len(log) = 1
        /\ log[1].op = "read" /\ log[1].off = 0 /\ log[1].len = Len(fut.buf)
        /\ res.t = log[1].t
        /\ res.t = "Ready" =>
              /\ res.n = log[1].n /\ res.n = rd.at
              /\ res.buf = fut.buf
              /\ SubSeq(res.buf, 1, res.n) = SubSeq(rd.data, 1, res.n)
              /\ fut.state = "Empty"
        /\ res.t # "Ready" => fut.state = "Pending"

\* C31 witness: Read resolved with a short count, with more of the stream
\* and more of the buffer left.
C31_Witness ==
    /\ fut.kind = "Read" /\ res.t = "Ready"
    /\ 0 < res.n /\ res.n < Len(fut.buf) /\ res.n < Len(rd.data)

\* C31 witness at end-of-stream: Ready(0) on a non-empty buffer.
C31_WitnessEof ==
    /\ fut.kind = "Read" /\ res.t = "Ready" /\ res.n = 0 /\ Len(fut.buf) > 0

(***************************************************************************)
(* Default vectored read and write (futures-io/src/lib.rs)                 *)
(***************************************************************************)
\* The largest number of segments of a segment list.
MaxSegs == 2

\* A segment list for reading: segments of zeroes of the given lengths.
ReadVec(lens) == [j \in 1..Len(lens) |-> Zeroed(lens[j])]

\* A segment list for writing: segment j holds the bytes 10j+1, 10j+2, ...
WriteVec(lens) == [j \in 1..Len(lens) |-> [i \in 1..lens[j] |-> 10 * j + i]]

\* What a poll_*_core call hands back, as a result record.
CoreRes(t, n) ==
    IF t = "Ready" THEN ReadyRes(n, NoBytes)
    ELSE IF t = "Pending" THEN PendingRes ELSE IoErr(n)

poll_vectored_read_core_last(r, vec) ==
    IF Len(vec) > 0
    THEN LET x == poll_read_core(r, Len(vec[Len(vec)]))
         IN [rd |-> x.rd,
             vec |-> [vec EXCEPT ![Len(vec)] = WriteAt(@, 0, x.bytes)],
             log |-> <<Call("read", 0, Len(vec[Len(vec)]), x.t, x.n)>>,
             res |-> CoreRes(x.t, x.n)]
    ELSE [rd |-> r, vec |-> vec, log |-> <<>>, res |-> CoreRes("Ready", 0)]

\* CoreAsyncRead::poll_vectored_read_core, the default body: the first
\* segment is passed to poll_read_core, an empty list gives Ready(0).
poll_vectored_read_core(r, vec) ==
    IF Len(vec) > 0
    THEN LET x == poll_read_core(r, Len(vec[1]))
         IN [rd |-> x.rd,
             vec |-> [vec EXCEPT ![1] = WriteAt(@, 0, x.bytes)],
             log |-> <<Call("read", 0, Len(vec[1]), x.t, x.n)>>,
             res |-> CoreRes(x.t, x.n)]
    ELSE [rd |-> r, vec |-> vec, log |-> <<>>, res |-> CoreRes("Ready", 0)]

\* CoreAsyncWrite::poll_vectored_write_core, the default body.
poll_vectored_write_core(w, vec) ==
    IF Len(vec) > 0
    THEN LET x == poll_write_core(w, vec[1])
         IN [wr |-> x.wr,
             log |-> <<Call("write", 0, Len(vec[1]), x.t, x.n)>>,
             res |-> CoreRes(x.t, x.n)]
    ELSE [wr |-> w, log |-> <<>>, res |-> CoreRes("Ready", 0)]

\* A caller's poll_vectored_read_core on its segment list.
CallVectoredRead ==
    /\ fut.kind = "Vectored" /\ fut.dir = "read"
    /\ LET o == poll_vectored_read_core(rd, fut.vec)
       IN /\ rd' = o.rd
          /\ fut' = [fut EXCEPT !.vec = o.vec, !.lens = fut.lens]
          /\ log' = o.log
          /\ res' = [t |-> o.res.t, n |-> o.res.n, err |-> o.res.err,
                     buf |-> o.res.buf, code |-> o.res.code,
                     prev |-> res.t, pn |-> res.n]
    /\ UNCHANGED <<wr, rbVars, splitVars>>

\* A caller's poll_vectored_write_core on its segment list.
CallVectoredWrite ==
    /\ fut.kind = "Vectored" /\ fut.dir = "write"
    /\ Len(wr.out) < MaxStream
    /\ LET o == poll_vectored_write_core(wr, fut.vec)
       IN /\ wr' = o.wr
          /\ log' = o.log
          /\ res' = [t |-> o.res.t, n |-> o.res.n, err |-> o.res.err,
                     buf |-> o.res.buf, code |-> o.res.code,
                     prev |-> res.t, pn |-> res.n]
    /\ UNCHANGED <<fut, rd, rbVars, splitVars>>

\* A reader or a writer with at most one scripted response, and a segment
\* list of at most MaxSegs segments of at most MaxBuf bytes.
InitVectored ==
    /\ \E m \in 0..MaxSegs : \E lens \in [1..m -> 0..MaxBuf] :
       \E a \in 0..1 : \E l \in 0..MaxStream :
          \/ /\ fut = [kind |-> "Vectored", dir |-> "read", lens |-> lens,
                       vec |-> ReadVec(lens)]
             /\ \E rs \in [1..a -> ReadEntries] :
                   rd = [data |-> Stream(l), at |-> 0, script |-> rs]
             /\ wr = NoWriter
          \/ /\ fut = [kind |-> "Vectored", dir |-> "write", lens |-> lens,
                       vec |-> WriteVec(lens)]
             /\ l = 0
             /\ rd = NoReader
             /\ \E ws \in [1..a -> WriteEntries] :
                   wr = [out |-> NoBytes, wscript |-> ws, fscript |-> <<>>]
    /\ res = [t |-> "None", n |-> 0, err |-> "", buf |-> NoBytes, code |-> 0,
              prev |-> "None", pn |-> 0]
    /\ log = <<>>
    /\ IdleReadBuf
    /\ IdleSplit

NextVectored == CallVectoredRead \/ CallVectoredWrite

SpecVectored == InitVectored /\ [][NextVectored]_vars

\* C32: a default vectored read or write on an empty segment list returns
\* Ready(0) without a call on the resource; on a non-empty list it makes one
\* poll_read_core / poll_write_core call, on the whole first segment, and
\* returns that call's result; the segments after the first are neither
\* written (read) nor sent (write).
C32_VectoredFirstSegmentOnly ==
    /\ [](fut.kind = "Vectored" /\ res.t # "None" =>
          /\ Len(fut.vec) = 0 =>
                log = <<>> /\ res.t = "Ready" /\ res.n = 0
          /\ Len(fut.vec) > 0 =>
                /\ Len(log) = 1
                /\ log[1].op = fut.dir /\ log[1].off = 0
                /\ log[1].len = Len(fut.vec[1])
                /\ res.t = log[1].t /\ res.n = log[1].n /\ res.code = log[1].err
                /\ (fut.dir = "read" /\ res.t = "Ready") =>
                      SubSeq(fut.vec[1], 1, res.n)
                          = SubSeq(rd.data, rd.at - res.n + 1, rd.at)
          /\ \A j \in 2..Len(fut.vec) :
                fut.vec[j] = (IF fut.dir = "read" THEN ReadVec(fut.lens)
                              ELSE WriteVec(fut.lens))[j])
    /\ [][(fut.kind = "Vectored" /\ fut.dir = "write") =>
             wr'.out = wr.out \o (IF Len(fut.vec) > 0 /\ res'.t = "Ready"
                                  THEN SubSeq(fut.vec[1], 1, res'.n)
                                  ELSE NoBytes)]_vars

\* C32 witness: a vectored read on two non-empty segments that delivered
\* bytes, with more bytes in the stream than the first segment holds.
C32_Witness ==
    /\ fut.kind = "Vectored" /\ fut.dir = "read" /\ Len(fut.vec) = 2
    /\ Len(fut.vec[2]) > 0
    /\ res.t = "Ready" /\ res.n > 0 /\ res.n = Len(fut.vec[1])
    /\ rd.at < Len(rd.data)

\* C32 witness for writing: two non-empty segments, the first accepted whole.
C32_WitnessWrite ==
    /\ fut.kind = "Vectored" /\ fut.dir = "write" /\ Len(fut.vec) = 2
    /\ Len(fut.vec[2]) > 0
    /\ res.t = "Ready" /\ res.n > 0 /\ res.n = Len(fut.vec[1])

\* C32 witness for the empty list.
C32_WitnessEmpty ==
    fut.kind = "Vectored" /\ Len(fut.vec) = 0 /\ res.t = "Ready"

(***************************************************************************)
(* The byte-slice reader (futures-io/src/lib.rs, impl for &'a [u8])        *)
(***************************************************************************)
slice_poll_read_core_keep(slice, buf) ==
    LET length == Min(Len(slice), Len(buf))
    IN [slice |-> slice,
        buf |-> WriteAt(buf, 0, SubSeq(slice, 1, length)),
        res |-> CoreRes("Ready", length)]

\* <&[u8] as CoreAsyncRead>::poll_read_core: split the slice at
\* min(self.len(), buf.len()), copy the head into buf, keep the tail.
slice_poll_read_core(slice, buf) ==
    LET length == Min(Len(slice), Len(buf))
        head == SubSeq(slice, 1, length)
        tail == SubSeq(slice, length + 1, Len(slice))
    IN [slice |-> tail,
        buf |-> WriteAt(buf, 0, head),
        res |-> CoreRes("Ready", length)]

\* A caller reads from the slice into a buffer of k zero bytes; got collects
\* the bytes the reads delivered.
CallSliceRead ==
    /\ fut.kind = "SliceRead"
    /\ \E k \in 0..MaxBuf :
          LET o == slice_poll_read_core(rd.slice, Zeroed(k))
          IN /\ rd' = [rd EXCEPT !.slice = o.slice,
                                 !.got = @ \o SubSeq(o.buf, 1, o.res.n)]
             /\ fut' = [fut EXCEPT !.buf = o.buf]
             /\ log' = <<Call("read", 0, k, o.res.t, o.res.n)>>
             /\ res' = [t |-> o.res.t, n |-> o.res.n, err |-> o.res.err,
                        buf |-> o.res.buf, code |-> o.res.code,
                        prev |-> res.t, pn |-> res.n]
    /\ UNCHANGED <<wr, rbVars, splitVars>>

\* A slice of 0..MaxStream distinct bytes, nothing read yet.
InitSlice ==
    /\ \E l \in 0..MaxStream :
          rd = [data |-> Stream(l), slice |-> Stream(l), got |-> NoBytes]
    /\ fut = [kind |-> "SliceRead", buf |-> NoBytes]
    /\ wr = NoWriter
    /\ res = [t |-> "None", n |-> 0, err |-> "", buf |-> NoBytes, code |-> 0,
              prev |-> "None", pn |-> 0]
    /\ log = <<>>
    /\ IdleReadBuf
    /\ IdleSplit

NextSlice == CallSliceRead

SpecSlice == InitSlice /\ [][NextSlice]_vars

\* C33: a read from a byte slice is always Ready(min(remaining, buf.len())):
\* it copies that many bytes from the head of the slice to the head of buf
\* and removes them from the slice, so the reads deliver the slice's bytes
\* in order, none lost and none twice, and with a non-empty buf Ready(0)
\* means the slice is exhausted.
C33_SliceReaderDelivers ==
    /\ [](fut.kind = "SliceRead" =>
             /\ res.t \in {"None", "Ready"}
             /\ rd.got \o rd.slice = rd.data)
    /\ [][fut.kind = "SliceRead" =>
             /\ res'.t = "Ready"
             /\ res'.n = Min(Len(rd.slice), log'[1].len)
             /\ Len(fut'.buf) = log'[1].len
             /\ SubSeq(fut'.buf, 1, res'.n) = SubSeq(rd.slice, 1, res'.n)
             /\ rd'.slice = SubSeq(rd.slice, res'.n + 1, Len(rd.slice))
             /\ (Len(fut'.buf) > 0 /\ res'.n = 0) => rd.slice = <<>>]_vars

\* C33 witness: a second read that filled its buffer and left bytes in the
\* slice, after a first read that delivered bytes.
C33_Witness ==
    /\ fut.kind = "SliceRead" /\ res.t = "Ready" /\ res.prev = "Ready"
    /\ res.pn > 0 /\ res.n > 0 /\ res.n = Len(fut.buf)
    /\ Len(rd.got) = res.pn + res.n /\ Len(rd.slice) > 0

\* C33 witness at the end: Ready(0) on a non-empty buffer, all bytes
\* delivered.
C33_WitnessExhausted ==
    /\ fut.kind = "SliceRead" /\ res.t = "Ready" /\ res.n = 0
    /\ Len(fut.buf) > 0 /\ rd.got = rd.data /\ Len(rd.data) = MaxStream

\* C34: with a writer that accepts at most the bytes it is offered, after
\* any sequence of CopyInto polls 0 <= pos <= cap <= buffer length, amt is
\* the number of bytes the writer accepted, those bytes are a prefix of the
\* bytes the reader delivered, and the bytes read are amt + (cap - pos).
C34_CopyIntoCounters ==
    fut.kind = "CopyInto" =>
        /\ 0 <= fut.pos /\ fut.pos <= fut.cap /\ fut.cap <= Len(fut.buf)
        /\ fut.amt = Len(wr.out)
        /\ \A i \in 1..Len(wr.out) : i <= rd.at /\ wr.out[i] = rd.data[i]
        /\ rd.at = fut.amt + (fut.cap - fut.pos)

\* C34 witness: a poll returned in the middle of the second buffer-full:
\* bytes of an earlier buffer-full accepted, the present one partly written.
C34_Witness ==
    /\ fut.kind = "CopyInto" /\ res.t \in {"Pending", "Err"}
    /\ 0 < fut.pos /\ fut.pos < fut.cap /\ fut.amt > fut.pos

\* C35: CopyInto polls the reader only with the buffer drained (pos = cap)
\* and read_done unset: a poll that starts with unwritten bytes writes
\* before it reads, a read follows a write only when that write emptied the
\* buffer, no read follows the read that gave end-of-stream, in the same
\* poll or in a later one (after a Pending flush too), and the unwritten
\* bytes buf[pos..cap] are the bytes read and not yet accepted.
C35_ReaderPolledOnlyWhenDrained ==
    /\ [](fut.kind = "CopyInto" =>
             /\ \A i \in 1..(Len(log) - 1) :
                   /\ log[i].op = "read" =>
                         /\ log[i].t = "Ready"
                         /\ log[i + 1].op = (IF log[i].n > 0 THEN "write" ELSE "flush")
                   /\ (log[i].op = "write" /\ log[i + 1].op = "read") =>
                         log[i].t = "Ready" /\ log[i].n = log[i].len
                   /\ log[i].op = "flush" => log[i + 1].op # "read"
             /\ \A i \in 1..Len(log) : \A j \in (i + 1)..Len(log) :
                   (log[i].op = "read" /\ log[i].n = 0) => log[j].op # "read"
             /\ SubSeq(fut.buf, fut.pos + 1, fut.cap)
                   = SubSeq(rd.data, fut.amt + 1, rd.at))
    /\ [][fut.kind = "CopyInto" =>
             /\ \A i \in 1..Len(log') : log'[i].op = "read" => ~fut.read_done
             /\ (Len(log') > 0 /\ log'[1].op = "read") => fut.pos = fut.cap
             /\ fut.read_done => fut'.read_done]_vars

\* C35 witness: the reader gave end-of-stream in an earlier poll, the flush
\* returned Pending, and the poll after it made the flush call alone.
C35_Witness ==
    /\ fut.kind = "CopyInto" /\ res.t = "Ready" /\ res.prev = "Pending"
    /\ Len(log) = 1 /\ log[1].op = "flush" /\ fut.read_done /\ res.n > 0

\* C35 witness for the buffer: a poll that started with unwritten bytes
\* wrote them and then read again.
C35_WitnessRefill ==
    /\ fut.kind = "CopyInto" /\ res.prev = "Pending" /\ Len(log) >= 2
    /\ log[1].op = "write" /\ log[1].off > 0 /\ log[2].op = "read"

\* The task has the future to poll: it was just created, or its last poll
\* returned Pending and the resource has woken the task since.
Woken == res.t \in {"None", "Pending"}

\* What is left of the scripts has no error, and no zero-byte write.
GoodEnv ==
    /\ \A i \in 1..Len(rd.script) : rd.script[i].t # "Err"
    /\ \A i \in 1..Len(wr.wscript) :
          wr.wscript[i].t # "Err" /\ wr.wscript[i] # [t |-> "Ready", n |-> 0]
    /\ \A i \in 1..Len(wr.fscript) : wr.fscript[i].t # "Err"

\* The scripted responses not yet given: a bound on the Pendings to come.
Pendings == Len(rd.script) + Len(wr.wscript) + Len(wr.fscript)

\* C36: with a finite stream, a reader, writer and flush that from now on
\* return no error, and a writer that accepts at least one byte whenever it
\* is ready, every poll of a CopyInto that has not returned Ready or an error
\* yet returns Ready, or returns Pending having used up one of the finitely
\* many times the resources are not ready; so a task that polls again after
\* every Pending gets Ready after finitely many polls. A single poll makes
\* at most two calls per byte of the stream and two more.
C36_CopyIntoTerminates ==
    /\ [][(fut.kind = "CopyInto" /\ Woken /\ GoodEnv) =>
             /\ GoodEnv'
             /\ \/ res'.t = "Ready" /\ ~Woken'
                \/ res'.t = "Pending" /\ Pendings' < Pendings]_vars
    /\ [](fut.kind = "CopyInto" =>
             Pendings >= 0 /\ Len(log) <= 2 * Len(rd.data) + 2)

\* C36 witness: CopyInto returned Ready with the whole of the longest
\* stream after polls that returned Pending, all scripted responses used.
C36_Witness ==
    /\ fut.kind = "CopyInto" /\ res.t = "Ready" /\ res.prev = "Pending"
    /\ res.pn = 0 /\ res.n = MaxStream /\ Pendings = 0
    /\ Len(log) >= MaxStream

\* C37: at the start of every round of read_to_end_internal the carried
\* initialized count is at most the spare capacity (capacity - len, after
\* the reserve of a full vector), so the ReadBuf built over the spare bytes
\* with assume_init(initialized) has filled <= initialized <= capacity and
\* claims only bytes that were written; the count is 0 whenever the vector
\* is full and reserve(32) reallocates it; the same holds at every return.
C37_CarriedInitializedFits ==
    fut.kind = "ReadToEnd" =>
        /\ \A i \in 1..Len(log) :
              /\ 0 <= log[i].init /\ log[i].init <= log[i].len
              /\ log[i].reserved => log[i].init = 0
        /\ 0 <= fut.initialized
        /\ fut.initialized <= capacity(fut.vec) - fut.vec.len
        /\ capacity(fut.vec) = fut.vec.len => fut.initialized = 0
        /\ \A i \in 1..fut.initialized : fut.vec.bytes[fut.vec.len + i] # Uninit

\* C37 witness: a round began with a carried count above 0, and a later
\* round of the same poll found the vector full and reserved.
C37_Witness ==
    /\ fut.kind = "ReadToEnd"
    /\ \E i \in 1..Len(log) : \E j \in (i + 1)..Len(log) :
          log[i].init > 0 /\ log[j].reserved

\* C37 witness at a return: the poll returned with a carried count above 0.
C37_WitnessCarried ==
    fut.kind = "ReadToEnd" /\ res.t = "Pending" /\ fut.initialized > 0

\* C38: at every return of ReadToEnd::poll the vector's length is its length
\* at construction plus the filled counts of the reads so far: each read
\* starts at the length the read before it left and adds its filled count,
\* the length covers no byte that was not written, and the first start_len
\* bytes are as they were. With a reader that advances filled by what it
\* wrote, the vector is its first contents followed by the bytes read.
C38_LengthCountsFilledBytes ==
    /\ [](fut.kind = "ReadToEnd" =>
             /\ \A i \in 1..(Len(log) - 1) :
                   log[i].t = "Ready" /\ log[i + 1].off = log[i].off + log[i].n
             /\ (Len(log) > 0 /\ res.t # "Panic") =>
                   fut.vec.len = log[Len(log)].off + log[Len(log)].n
             /\ fut.start_len <= fut.vec.len /\ fut.vec.len <= capacity(fut.vec)
             /\ \A i \in 1..fut.vec.len : fut.vec.bytes[i] # Uninit
             /\ SubSeq(fut.vec.bytes, 1, fut.start_len) = Zeroed(fut.start_len)
             /\ rd.how \in {"assume_init", "assume_init_all"} =>
                   SubSeq(fut.vec.bytes, 1, fut.vec.len)
                       = Zeroed(fut.start_len) \o SubSeq(rd.data, 1, rd.at))
    /\ [][fut.kind = "ReadToEnd" =>
             /\ fut'.start_len = fut.start_len
             /\ Len(log') > 0 => log'[1].off = fut.vec.len
             /\ Len(log') = 0 => fut'.vec.len = fut.vec.len]_vars

\* C38 witness: a poll returned Pending with bytes collected after a
\* non-empty start and spare capacity left over, after an earlier Pending.
C38_Witness ==
    /\ fut.kind = "ReadToEnd" /\ res.t = "Pending" /\ res.prev = "Pending"
    /\ fut.start_len > 0 /\ fut.vec.len > fut.start_len
    /\ capacity(fut.vec) > fut.vec.len
    /\ fut.vec.bytes[fut.vec.len + 1] = Uninit

====
